---- MODULE Spec2Model ----
(***************************************************************************)
(* Model of audit.py (Ambari configuration audit).                         *)
(*                                                                         *)
(* AmbariAudit.execute lists the versions of one configuration type,       *)
(* fetches the snapshot of every version, diffs consecutive snapshots into *)
(* an audit log and writes the log.  main parses the command line.         *)
(*                                                                         *)
(* A Python dict is modelled as a sequence of [k, v] records with distinct *)
(* keys: the sequence order is the iteration order of that dict object,    *)
(* which CPython fixes for an unmodified object but which the code cannot  *)
(* choose, so every order is an input.  A string is a sequence of          *)
(* one-character strings wherever the code looks inside it (getopt).       *)
(*                                                                         *)
(* The Ambari server is the environment.  It lists every version of a      *)
(* configuration type once (versions are unique per type) and the snapshot *)
(* behind a descriptor's href carries the descriptor's version.            *)
(***************************************************************************)
EXTENDS Integers, Sequences, FiniteSets, TLC

VARIABLES
    pc,               \* position inside execute (lines 118-130)
    config_id,        \* self.config_id
    config_versions,  \* self.config_versions
    configs,          \* self.configs
    audit_log,        \* self.audit_log
    idx,              \* position of the for loop of _retrieve_configs (1-based)
    list_status,      \* status code of the version-listing response, 0 before it
    responses,        \* status code returned for each fetched href
    diff_runs,        \* number of calls of _config_diff on this object
    fnout,            \* argument of execute
    output,           \* what _finalize wrote, and where
    argv,             \* argument of main
    main_result       \* how main ended and what it returned

vars == <<pc, config_id, config_versions, configs, audit_log, idx, list_status,
          responses, diff_runs, fnout, output, argv, main_result>>

auditVars == <<pc, config_id, config_versions, configs, audit_log, idx,
               list_status, responses, diff_runs, fnout, output>>

mainVars == <<argv, main_result>>

----------------------------------------------------------------------------
(* Bounds of the model *)

MaxVersions == 3

MaxDiffRuns == 2

MaxOpts == 4

(* Program constants *)

HTTP_OK == 200

Keys == {"a", "b"}

Values == {"1", "2"}

FailStatuses == {404}

\* the runs looked at: (config, fnout) as main returns them, one printing to
\* standard output and one writing a file
Runs ==
    {[config |-> "hdfs-site", fnout |-> <<>>],
     [config |-> "core-site", fnout |-> <<"o", "u", "t">>]}

----------------------------------------------------------------------------
(* Dicts *)

HasKey(d, key) == \E i \in 1..Len(d) : d[i].k = key

Get(d, key) == d[CHOOSE i \in 1..Len(d) : d[i].k = key].v

KeysOf(d) == {d[i].k : i \in 1..Len(d)}

Dicts ==
    UNION {{d \in [1..n -> [k : Keys, v : Values]] :
                \A i, j \in 1..n : d[i].k = d[j].k => i = j} :
           n \in 0..Cardinality(Keys)}

Range(s) == {s[i] : i \in 1..Len(s)}

----------------------------------------------------------------------------
(* _retrieve_config_versions *)

\* the item lists the server can answer with: every version at most once
Listings ==
    UNION {{[i \in 1..Cardinality(S) |-> [version |-> p[i], href |-> p[i]]] :
                p \in {q \in [1..Cardinality(S) -> S] :
                           \A i, j \in 1..Cardinality(S) : q[i] = q[j] => i = j}} :
           S \in SUBSET (1..MaxVersions)}

RECURSIVE InsertSorted(_, _)
InsertSorted(sorted, item) ==
    IF sorted = <<>> THEN <<item>>
    ELSE IF sorted[Len(sorted)].version <= item.version
         THEN Append(sorted, item)
         ELSE Append(InsertSorted(SubSeq(sorted, 1, Len(sorted) - 1), item),
                     sorted[Len(sorted)])

RECURSIVE SortedPrefix(_, _)
SortedPrefix(items, n) ==
    IF n = 0 THEN <<>> ELSE InsertSorted(SortedPrefix(items, n - 1), items[n])

SortItemsUnsorted(items) == items

\* sorted(res['items'], key=lambda item: item['version']): ascending, stable
SortItems(items) == SortedPrefix(items, Len(items))

\* the listing answered with a JSON body
RetrieveConfigVersionsJson ==
    /\ pc = "retrieve_versions"
    /\ \E status \in {HTTP_OK} \cup FailStatuses :
       \E body \in IF status = HTTP_OK
                   THEN {[has_items |-> TRUE, items |-> l] : l \in Listings}
                   ELSE {[has_items |-> FALSE, items |-> <<>>]} :
          /\ list_status' = status
          /\ config_versions' = IF body.has_items /\ Len(body.items) # 0
                                THEN SortItems(body.items)
                                ELSE config_versions
    /\ idx' = 1
    /\ pc' = IF Len(config_versions') = 0 THEN "diff" ELSE "retrieve_configs"
    /\ UNCHANGED <<config_id, configs, audit_log, responses, diff_runs, fnout,
                   output>>
    /\ UNCHANGED mainVars

\* the listing answered with a body that is not JSON: r.json() raises
RetrieveConfigVersionsNotJson ==
    /\ pc = "retrieve_versions"
    /\ \E status \in {HTTP_OK} \cup FailStatuses : list_status' = status
    /\ pc' = "crashed"
    /\ UNCHANGED <<config_id, config_versions, configs, audit_log, idx,
                   responses, diff_runs, fnout, output>>
    /\ UNCHANGED mainVars

----------------------------------------------------------------------------
(* _retrieve_configs *)

NextIndexBreak(i, status) == IF status # HTTP_OK THEN MaxVersions + 2 ELSE i + 1

\* both `continue' and the end of the loop body go on with the next version
NextIndex(i, status) == i + 1

\* one iteration of the loop over self.config_versions
RetrieveConfigsStep ==
    /\ pc = "retrieve_configs"
    /\ idx <= Len(config_versions)
    /\ LET cversion == config_versions[idx] IN
       \E status \in {HTTP_OK} \cup FailStatuses, props \in Dicts :
          /\ status # HTTP_OK => props = <<>>
          /\ responses' = Append(responses, [href |-> cversion.href,
                                             status |-> status])
          /\ configs' = IF status # HTTP_OK
                        THEN configs
                        ELSE Append(configs, [version |-> cversion.version,
                                              properties |-> props])
          /\ idx' = NextIndex(idx, status)
    /\ pc' = IF idx' > Len(config_versions) THEN "diff" ELSE "retrieve_configs"
    /\ UNCHANGED <<config_id, config_versions, audit_log, list_status,
                   diff_runs, fnout, output>>
    /\ UNCHANGED mainVars

----------------------------------------------------------------------------
(* _config_diff *)

\* prev_config is a reference: 0 is the fresh dict of line 74, i > 0 is the
\* dict configs[i]['properties'] it was bound to on line 93
Deref(heap, p) == IF p = 0 THEN <<>> ELSE heap[p].properties

NewAuditKeepsLog(old_log) == old_log

\* audit = []
NewAudit(old_log) == <<>>

InitialPrevFirstConfig(heap) == IF Len(heap) > 0 THEN 1 ELSE 0

\* prev_config = {}
InitialPrev(heap) == 0

PropertyEventSwapped(key, val, prev, version, cid) ==
    IF ~HasKey(prev, key)
    THEN <<[version |-> version, type |-> cid, action |-> "ADDED",
            key |-> key, value |-> val]>>
    ELSE IF Get(prev, key) # val
         THEN <<[version |-> version, type |-> cid, action |-> "CHANGED",
                 key |-> key, value |-> Get(prev, key), old_value |-> val]>>
         ELSE <<>>

PropertyEventNoCompare(key, val, prev, version, cid) ==
    IF ~HasKey(prev, key)
    THEN <<[version |-> version, type |-> cid, action |-> "ADDED",
            key |-> key, value |-> val]>>
    ELSE <<[version |-> version, type |-> cid, action |-> "CHANGED",
            key |-> key, value |-> val, old_value |-> Get(prev, key)]>>

\* the body of the loop over conf['properties'] (lines 82-85)
PropertyEvent(key, val, prev, version, cid) ==
    IF ~HasKey(prev, key)
    THEN <<[version |-> version, type |-> cid, action |-> "ADDED",
            key |-> key, value |-> val]>>
    ELSE IF Get(prev, key) # val
         THEN <<[version |-> version, type |-> cid, action |-> "CHANGED",
                 key |-> key, value |-> val, old_value |-> Get(prev, key)]>>
         ELSE <<>>

\* the body of the loop over prev_config (lines 89-90)
RemovalEvent(pkey, pval, props, version, cid) ==
    IF ~HasKey(props, pkey)
    THEN <<[version |-> version, type |-> cid, action |-> "REMOVED",
            key |-> pkey, value |-> pval]>>
    ELSE <<>>

RECURSIVE PropertyLoop(_, _, _, _, _)
\* for key,val in conf['properties'].iteritems(), from position i on
PropertyLoop(props, i, prev, version, cid) ==
    IF i > Len(props) THEN <<>>
    ELSE PropertyEvent(props[i].k, props[i].v, prev, version, cid)
         \o PropertyLoop(props, i + 1, prev, version, cid)

RECURSIVE RemovalLoop(_, _, _, _, _)
\* for pkey,pval in prev_config.iteritems(), from position i on
RemovalLoop(prev, i, props, version, cid) ==
    IF i > Len(prev) THEN <<>>
    ELSE RemovalEvent(prev[i].k, prev[i].v, props, version, cid)
         \o RemovalLoop(prev, i + 1, props, version, cid)

StorePrevKeepsOld(p, i) == p

\* prev_config = conf['properties']: rebinds the name to the dict of configs[i]
StorePrev(p, i) == i

HeapAfterIterationClearsPrev(heap, p, i) ==
    IF p = 0 THEN heap ELSE [heap EXCEPT ![p].properties = <<>>]

\* lines 76-93 store into no dict: the snapshots are only read
HeapAfterIteration(heap, p, i) == heap

RECURSIVE ConfigLoop(_, _, _, _, _)
\* for conf in self.configs, from position i on; the result is the local
\* audit list and the snapshots as the loop leaves them
ConfigLoop(heap, i, p, audit, cid) ==
    IF i > Len(heap) THEN [audit |-> audit, configs |-> heap]
    ELSE LET conf == heap[i]
             version == conf.version
             prev == Deref(heap, p)
             added == PropertyLoop(conf.properties, 1, prev, version, cid)
             removed == RemovalLoop(prev, 1, conf.properties, version, cid)
         IN ConfigLoop(HeapAfterIteration(heap, p, i), i + 1, StorePrev(p, i),
                       audit \o added \o removed, cid)

\* the state _config_diff leaves: self.audit_log = audit
config_diff(heap, old_log, cid) ==
    ConfigLoop(heap, 1, InitialPrev(heap), NewAudit(old_log), cid)

\* _config_diff as execute calls it
ConfigDiff ==
    /\ pc = "diff"
    /\ LET r == config_diff(configs, audit_log, config_id) IN
          /\ audit_log' = r.audit
          /\ configs' = r.configs
    /\ diff_runs' = diff_runs + 1
    /\ pc' = "finalize"
    /\ UNCHANGED <<config_id, config_versions, idx, list_status, responses,
                   fnout, output>>
    /\ UNCHANGED mainVars

\* a further call of _config_diff on the same object after execute returned
ConfigDiffAgain ==
    /\ pc = "done"
    /\ diff_runs < MaxDiffRuns
    /\ LET r == config_diff(configs, audit_log, config_id) IN
          /\ audit_log' = r.audit
          /\ configs' = r.configs
    /\ diff_runs' = diff_runs + 1
    /\ UNCHANGED <<pc, config_id, config_versions, idx, list_status, responses,
                   fnout, output>>
    /\ UNCHANGED mainVars

----------------------------------------------------------------------------
(* _finalize *)

\* _get_audit_log_string: the fields in the order the format string puts them
get_audit_log_string(text) ==
    IF text.action # "CHANGED"
    THEN <<text.type, ": version ", text.version, " - ", text.action, " - ",
           text.key, " - ", text.value>>
    ELSE <<text.type, ": version ", text.version, " - ", text.action, " - ",
           text.key, " - ", text.old_value, " => ", text.value>>

Finalize ==
    /\ pc = "finalize"
    /\ output' = [dest |-> IF fnout # <<>> THEN "file" ELSE "stdout",
                  lines |-> [n \in 1..Len(audit_log) |->
                                get_audit_log_string(audit_log[n])]]
    /\ pc' = "done"
    /\ UNCHANGED <<config_id, config_versions, configs, audit_log, idx,
                   list_status, responses, diff_runs, fnout>>
    /\ UNCHANGED mainVars

----------------------------------------------------------------------------
(* main: getopt.getopt(argv, 'ht:c:u:o:s:cfg:', [...]) *)

shortopts ==
    <<"h", "t", ":", "c", ":", "u", ":", "o", ":", "s", ":", "c", "f", "g", ":">>

longopts ==
    << <<"h", "e", "l", "p">>,
       <<"t", "a", "r", "g", "e", "t", "=">>,
       <<"c", "l", "u", "s", "t", "e", "r", "=">>,
       <<"u", "s", "e", "r", "=">>,
       <<"o", "u", "t", "p", "u", "t", "=">>,
       <<"h", "t", "t", "p", "s", "=">>,
       <<"c", "o", "n", "f", "i", "g", "=">> >>

StartsWith(str, prefix) ==
    Len(prefix) <= Len(str) /\ SubSeq(str, 1, Len(prefix)) = prefix

Rest(str, n) == SubSeq(str, n + 1, Len(str))

\* getopt.short_has_arg: the FIRST place of the letter in shortopts decides
short_has_arg(opt) ==
    IF \E i \in 1..Len(shortopts) : shortopts[i] = opt /\ opt # ":"
    THEN LET i == CHOOSE n \in 1..Len(shortopts) :
                      /\ shortopts[n] = opt
                      /\ \A m \in 1..(n - 1) : shortopts[m] # opt
         IN IF i + 1 <= Len(shortopts) /\ shortopts[i + 1] = ":"
            THEN "yes" ELSE "no"
    ELSE "error"

RECURSIVE do_shorts(_, _, _)
\* getopt.do_shorts: the letters of one argument after its '-'
do_shorts(opts, optstring, args) ==
    IF optstring = <<>> THEN [err |-> FALSE, opts |-> opts, args |-> args]
    ELSE LET opt == optstring[1]
             rest == Tail(optstring)
             has == short_has_arg(opt)
         IN IF has = "error" THEN [err |-> TRUE, opts |-> opts, args |-> args]
            ELSE IF has = "yes"
            THEN IF rest = <<>>
                 THEN IF args = <<>>
                      THEN [err |-> TRUE, opts |-> opts, args |-> args]
                      ELSE [err |-> FALSE,
                            opts |-> Append(opts, <<<<"-", opt>>, args[1]>>),
                            args |-> Tail(args)]
                 ELSE [err |-> FALSE,
                       opts |-> Append(opts, <<<<"-", opt>>, rest>>),
                       args |-> args]
            ELSE do_shorts(Append(opts, <<<<"-", opt>>, <<>>>>), rest, args)

\* getopt.long_has_args: exact name, or the unique name the text starts
long_has_args(opt) ==
    LET possibilities == {o \in Range(longopts) : StartsWith(o, opt)} IN
    IF possibilities = {} THEN [err |-> TRUE]
    ELSE IF opt \in possibilities
    THEN [err |-> FALSE, has_arg |-> FALSE, opt |-> opt]
    ELSE IF Append(opt, "=") \in possibilities
    THEN [err |-> FALSE, has_arg |-> TRUE, opt |-> opt]
    ELSE IF Cardinality(possibilities) > 1 THEN [err |-> TRUE]
    ELSE LET unique_match == CHOOSE o \in possibilities : TRUE IN
         IF unique_match[Len(unique_match)] = "="
         THEN [err |-> FALSE, has_arg |-> TRUE,
               opt |-> SubSeq(unique_match, 1, Len(unique_match) - 1)]
         ELSE [err |-> FALSE, has_arg |-> FALSE, opt |-> unique_match]

\* getopt.do_longs: one argument after its '--'
do_longs(opts, text, args) ==
    LET eq == {i \in 1..Len(text) : text[i] = "="}
        i == CHOOSE n \in eq : \A m \in eq : n <= m
        opt == IF eq = {} THEN text ELSE SubSeq(text, 1, i - 1)
        given == eq # {}
        optarg == IF eq = {} THEN <<>> ELSE Rest(text, i)
        h == long_has_args(opt)
    IN IF h.err THEN [err |-> TRUE, opts |-> opts, args |-> args]
       ELSE IF h.has_arg
       THEN IF ~given
            THEN IF args = <<>>
                 THEN [err |-> TRUE, opts |-> opts, args |-> args]
                 ELSE [err |-> FALSE,
                       opts |-> Append(opts, <<<<"-", "-">> \o h.opt, args[1]>>),
                       args |-> Tail(args)]
            ELSE [err |-> FALSE,
                  opts |-> Append(opts, <<<<"-", "-">> \o h.opt, optarg>>),
                  args |-> args]
       ELSE IF given THEN [err |-> TRUE, opts |-> opts, args |-> args]
       ELSE [err |-> FALSE,
             opts |-> Append(opts, <<<<"-", "-">> \o h.opt, <<>>>>),
             args |-> args]

RECURSIVE getopt(_, _)
\* getopt.getopt: options up to the first argument that is not one
getopt(opts, args) ==
    IF args # <<>> /\ StartsWith(args[1], <<"-">>) /\ args[1] # <<"-">>
    THEN IF args[1] = <<"-", "-">>
         THEN [err |-> FALSE, opts |-> opts, args |-> Tail(args)]
         ELSE LET r == IF StartsWith(args[1], <<"-", "-">>)
                       THEN do_longs(opts, Rest(args[1], 2), Tail(args))
                       ELSE do_shorts(opts, Rest(args[1], 1), Tail(args))
              IN IF r.err THEN r ELSE getopt(r.opts, r.args)
    ELSE [err |-> FALSE, opts |-> opts, args |-> args]

Opt_h == <<"-", "h">>
Opt_help == <<"-", "-", "h", "e", "l", "p">>
Opt_t == <<"-", "t">>
Opt_target == <<"-", "-", "t", "a", "r", "g", "e", "t">>
Opt_c == <<"-", "c">>
Opt_cluster == <<"-", "-", "c", "l", "u", "s", "t", "e", "r">>
Opt_u == <<"-", "u">>
Opt_user == <<"-", "-", "u", "s", "e", "r">>
Opt_o == <<"-", "o">>
Opt_output == <<"-", "-", "o", "u", "t", "p", "u", "t">>
Opt_cfg == <<"-", "c", "f", "g">>
Opt_config == <<"-", "-", "c", "o", "n", "f", "i", "g">>
Opt_s == <<"-", "s">>
Opt_https == <<"-", "-", "h", "t", "t", "p", "s">>
Opt_z == <<"-", "z">>

\* target=cluster=user=fnout=config= '' and use_https = False
MainLocals ==
    [target |-> <<>>, cluster |-> <<>>, user |-> <<>>, fnout |-> <<>>,
     config |-> <<>>, use_https |-> FALSE]

RECURSIVE OptLoop(_, _, _)
\* for opt, arg in opts (lines 145-160), from position i on
OptLoop(opts, i, st) ==
    IF i > Len(opts) THEN [help |-> FALSE, st |-> st]
    ELSE LET opt == opts[i][1]
             arg == opts[i][2]
         IN IF opt \in {Opt_h, Opt_help} THEN [help |-> TRUE, st |-> st]
            ELSE IF opt \in {Opt_t, Opt_target}
            THEN OptLoop(opts, i + 1, [st EXCEPT !.target = arg])
            ELSE IF opt \in {Opt_c, Opt_cluster}
            THEN OptLoop(opts, i + 1, [st EXCEPT !.cluster = arg])
            ELSE IF opt \in {Opt_u, Opt_user}
            THEN OptLoop(opts, i + 1, [st EXCEPT !.user = arg])
            ELSE IF opt \in {Opt_o, Opt_output}
            THEN OptLoop(opts, i + 1, [st EXCEPT !.fnout = arg])
            ELSE IF opt \in {Opt_cfg, Opt_config}
            THEN OptLoop(opts, i + 1, [st EXCEPT !.config = arg])
            ELSE IF opt \in {Opt_s, Opt_https}
            THEN OptLoop(opts, i + 1,
                         [st EXCEPT !.use_https = (arg = <<"T", "r", "u", "e">>)])
            ELSE OptLoop(opts, i + 1, st)

\* main(argv): how it ends, and the tuple it returns when it returns
main(args) ==
    LET parsed == getopt(<<>>, args) IN
    IF parsed.err THEN [outcome |-> "exit", code |-> 2]
    ELSE LET r == OptLoop(parsed.opts, 1, MainLocals) IN
         IF r.help THEN [outcome |-> "exit", code |-> 0]
         ELSE IF r.st.target = <<>> \/ r.st.user = <<>>
                 \/ r.st.cluster = <<>> \/ r.st.config = <<>>
         THEN [outcome |-> "exit", code |-> 2]
         ELSE [outcome |-> "return", code |-> 0, target |-> r.st.target,
               cluster |-> r.st.cluster, user |-> r.st.user,
               fnout |-> r.st.fnout, use_https |-> r.st.use_https,
               config |-> r.st.config]

\* the pieces a command line is put together from: a flag with its value, a
\* flag that takes none, a flag the program does not know
Groups ==
    {<<Opt_t, <<"h">>>>, <<Opt_target, <<"h">>>>,
     <<Opt_c, <<"k">>>>, <<Opt_cluster, <<"k">>>>,
     <<Opt_u, <<"u">>>>, <<Opt_user, <<"u">>>>,
     <<Opt_cfg, <<"x">>>>, <<Opt_config, <<"x">>>>,
     <<Opt_cfg, <<"y">>>>, <<Opt_config, <<"y">>>>,
     <<Opt_o, <<"o">>>>, <<Opt_h>>, <<Opt_z>>}

RECURSIVE Flatten(_)
Flatten(groups) ==
    IF groups = <<>> THEN <<>> ELSE groups[1] \o Flatten(Tail(groups))

Main ==
    /\ main_result.outcome = "pending"
    /\ main_result' = main(argv)
    /\ UNCHANGED argv
    /\ UNCHANGED auditVars

----------------------------------------------------------------------------
(* Specifications *)

NoAudit ==
    /\ pc = "retrieve_versions"
    /\ config_versions = <<>>
    /\ configs = <<>>
    /\ audit_log = <<>>
    /\ idx = 1
    /\ list_status = 0
    /\ responses = <<>>
    /\ diff_runs = 0
    /\ output = [dest |-> "none", lines |-> <<>>]

\* AmbariAudit.__init__, called with the tuple main returned
Init ==
    /\ NoAudit
    /\ \E run \in Runs :
          /\ config_id = run.config
          /\ fnout = run.fnout
    /\ argv = <<>>
    /\ main_result = [outcome |-> "pending", code |-> 0]

Next ==
    \/ RetrieveConfigVersionsJson
    \/ RetrieveConfigVersionsNotJson
    \/ RetrieveConfigsStep
    \/ ConfigDiff
    \/ ConfigDiffAgain
    \/ Finalize

Spec == Init /\ [][Next]_vars

\* the state main is called in: a command line of up to MaxOpts groups, no
\* audit object yet
InitMain ==
    /\ NoAudit
    /\ config_id = "hdfs-site"
    /\ fnout = <<>>
    /\ \E n \in 0..MaxOpts : \E g \in [1..n -> Groups] : argv = Flatten(g)
    /\ main_result = [outcome |-> "pending", code |-> 0]

NextMain == Main

SpecMain == InitMain /\ [][NextMain]_vars

----------------------------------------------------------------------------
(* Properties of the diff *)

Events == Range(audit_log)

Diffed == diff_runs >= 1

\* the snapshot before position i, or the empty mapping
Predecessor(i) == IF i = 1 THEN <<>> ELSE configs[i - 1].properties

\* what the comparison of snapshot S with its predecessor P has to report
ExpectedEvents(P, S, version, cid) ==
    {[version |-> version, type |-> cid, action |-> "ADDED", key |-> k,
      value |-> Get(S, k)] : k \in KeysOf(S) \ KeysOf(P)}
    \cup
    {[version |-> version, type |-> cid, action |-> "CHANGED", key |-> k,
      value |-> Get(S, k), old_value |-> Get(P, k)] :
        k \in {c \in KeysOf(S) \cap KeysOf(P) : Get(P, c) # Get(S, c)}}
    \cup
    {[version |-> version, type |-> cid, action |-> "REMOVED", key |-> k,
      value |-> Get(P, k)] : k \in KeysOf(P) \ KeysOf(S)}

ExpectedAt(i) ==
    ExpectedEvents(Predecessor(i), configs[i].properties, configs[i].version,
                   config_id)

RECURSIVE Offset(_)
\* the number of events the snapshots before position i account for
Offset(i) == IF i <= 1 THEN 0 ELSE Offset(i - 1) + Cardinality(ExpectedAt(i - 1))

\* C1: after _config_diff the log is, position by position of the snapshot
\* list, exactly the ADDED / CHANGED / REMOVED events of that snapshot against
\* its predecessor (the empty mapping for the first), each once, each with the
\* snapshot's version and the configured type, and nothing else.
C1_EventsPerSnapshot ==
    Diffed =>
        /\ Len(audit_log) = Offset(Len(configs) + 1)
        /\ \A i \in 1..Len(configs) :
              {audit_log[n] : n \in (Offset(i) + 1)..Offset(i + 1)} = ExpectedAt(i)

C1_Witness ==
    /\ Diffed
    /\ Len(configs) >= 2
    /\ {e.action : e \in Events} = {"ADDED", "CHANGED", "REMOVED"}
    /\ \E i \in 2..Len(configs) : \E k \in Keys :
          /\ HasKey(configs[i].properties, k)
          /\ HasKey(configs[i - 1].properties, k)
          /\ Get(configs[i].properties, k) = Get(configs[i - 1].properties, k)

\* C2: when execute is done the versions never decrease along the log, and
\* among the events of one version no ADDED or CHANGED follows a REMOVED.
C2_GroupedByVersion ==
    pc = "done" =>
        \A i, j \in 1..Len(audit_log) :
            i < j =>
                /\ audit_log[i].version <= audit_log[j].version
                /\ (/\ audit_log[i].version = audit_log[j].version
                    /\ audit_log[i].action = "REMOVED")
                   => audit_log[j].action = "REMOVED"

C2_Witness ==
    /\ pc = "done"
    /\ Cardinality({e.version : e \in Events}) >= 2
    /\ \E i, j \in 1..Len(audit_log) :
          /\ i < j
          /\ audit_log[i].version = audit_log[j].version
          /\ audit_log[i].action \in {"ADDED", "CHANGED"}
          /\ audit_log[j].action = "REMOVED"

\* C3: the first snapshot is reported as one ADDED event per property and no
\* CHANGED or REMOVED event; a list of one snapshot gives a log of only those.
C3_FirstSnapshotAllAdded ==
    (Diffed /\ configs # <<>>) =>
        LET first == configs[1]
            ofFirst == {n \in 1..Len(audit_log) :
                            audit_log[n].version = first.version}
        IN /\ Cardinality(ofFirst) = Len(first.properties)
           /\ \A n \in ofFirst : audit_log[n].action = "ADDED"
           /\ \A k \in KeysOf(first.properties) :
                 \E n \in ofFirst :
                    audit_log[n] = [version |-> first.version,
                                    type |-> config_id, action |-> "ADDED",
                                    key |-> k,
                                    value |-> Get(first.properties, k)]
           /\ Len(configs) = 1 => Len(audit_log) = Len(first.properties)

C3_Witness ==
    /\ Diffed
    /\ Len(configs) = 1
    /\ Len(configs[1].properties) = 2
    /\ Len(audit_log) = 2

\* a key that every snapshot holds with one and the same value
Constant(k) ==
    /\ configs # <<>>
    /\ \A i \in 1..Len(configs) :
          /\ HasKey(configs[i].properties, k)
          /\ Get(configs[i].properties, k) = Get(configs[1].properties, k)

\* C4 as stated: a key present with the same value in every snapshot has no
\* event at all in the log.
C4_ConstantKeyNeverLogged ==
    Diffed => \A k \in Keys : Constant(k) => \A e \in Events : e.key # k

\* C4 amended: a key present with the same value in every snapshot has exactly
\* one event in the log, the ADDED event of the first snapshot; it has no
\* CHANGED or REMOVED event and no event at any later version.
C4_ConstantKeyOnlyAddedOnce ==
    Diffed =>
        \A k \in Keys :
            Constant(k) =>
                /\ Cardinality({n \in 1..Len(audit_log) : audit_log[n].key = k}) = 1
                /\ [version |-> configs[1].version, type |-> config_id,
                    action |-> "ADDED", key |-> k,
                    value |-> Get(configs[1].properties, k)] \in Events

C4_Witness ==
    /\ Diffed
    /\ Len(configs) >= 3
    /\ \E k \in Keys : Constant(k)
    /\ \E e \in Events : e.action = "CHANGED"

----------------------------------------------------------------------------
(* Properties of the retrieval *)

\* C5: a version listing answered with a status other than 200 aborts the
\* run: no snapshot is fetched, no diff is computed, nothing is written and
\* execute does not complete.
C5_ListingFailureAborts ==
    (list_status # 0 /\ list_status # HTTP_OK) =>
        /\ pc = "crashed"
        /\ responses = <<>>
        /\ diff_runs = 0
        /\ output.dest = "none"

Fetched == {i \in 1..Len(responses) : responses[i].status = HTTP_OK}

Skipped == {i \in 1..Len(responses) : responses[i].status # HTTP_OK}

\* the number of successful responses among the first i
Rank(i) == Cardinality({j \in Fetched : j <= i})

\* C6: a version whose fetch does not return 200 is skipped: every version
\* is requested once, in sorted order, whatever the earlier answers were; the
\* snapshots kept are those of the successful requests, in that order; no
\* event carries a skipped version; and the events of a kept snapshot are its
\* differences from the kept snapshot before it (or the empty mapping).
C6_FailedFetchSkipped ==
    /\ Len(responses) <= Len(config_versions)
    /\ \A i \in 1..Len(responses) : responses[i].href = config_versions[i].href
    /\ pc \in {"diff", "finalize", "done"} => Len(responses) = Len(config_versions)
    /\ Len(configs) = Cardinality(Fetched)
    /\ \A i \in Fetched : configs[Rank(i)].version = config_versions[i].version
    /\ Diffed =>
          /\ \A i \in Skipped : \A e \in Events :
                e.version # config_versions[i].version
          /\ \A i \in Fetched :
                {e \in Events : e.version = config_versions[i].version}
                    = ExpectedAt(Rank(i))

C6_Witness ==
    /\ pc = "done"
    /\ Len(responses) = 3
    /\ responses[1].status = HTTP_OK
    /\ responses[2].status # HTTP_OK
    /\ responses[3].status = HTTP_OK
    /\ {e.action : e \in {x \in Events : x.version = config_versions[3].version}}
           = {"CHANGED", "REMOVED"}

----------------------------------------------------------------------------
(* Properties of repeated calls and of the inputs *)

DiffCall == diff_runs' = diff_runs + 1

\* C8: a call of _config_diff on an object that was already diffed, with the
\* snapshot list as it was, leaves audit_log as the earlier call left it.
C8_DiffIdempotent ==
    [][(DiffCall /\ Diffed /\ configs' = configs) => audit_log' = audit_log]_vars

C8_Witness ==
    /\ diff_runs >= 2
    /\ Len(configs) >= 2
    /\ Len(audit_log) >= 3

\* C9: a call of _config_diff leaves the snapshot list, every snapshot's
\* version and property mapping, and every other field but audit_log as they
\* were.
C9_DiffLeavesInputs ==
    [][DiffCall =>
          /\ configs' = configs
          /\ config_versions' = config_versions
          /\ UNCHANGED <<config_id, idx, list_status, responses, fnout, output>>
      ]_vars

C9_Witness ==
    /\ Diffed
    /\ Len(configs) >= 2
    /\ \E e \in Events : e.action = "REMOVED"
    /\ \E i \in 1..Len(configs) : Len(configs[i].properties) = 2

----------------------------------------------------------------------------
(* The log as a replay script *)

Mapping(d) == [k \in KeysOf(d) |-> Get(d, k)]

\* one event applied to a mapping; ok records that the event fitted
Apply(st, e) ==
    IF e.action = "ADDED"
    THEN [ok |-> st.ok /\ e.key \notin DOMAIN st.m,
          m |-> [k \in DOMAIN st.m \cup {e.key} |->
                    IF k = e.key THEN e.value ELSE st.m[k]]]
    ELSE IF e.action = "CHANGED"
    THEN [ok |-> /\ st.ok
                 /\ e.key \in DOMAIN st.m
                 /\ st.m[e.key] = e.old_value
                 /\ e.old_value # e.value,
          m |-> [k \in DOMAIN st.m \cup {e.key} |->
                    IF k = e.key THEN e.value ELSE st.m[k]]]
    ELSE [ok |-> /\ st.ok
                 /\ e.key \in DOMAIN st.m
                 /\ st.m[e.key] = e.value,
          m |-> [k \in DOMAIN st.m \ {e.key} |-> st.m[k]]]

RECURSIVE Replay(_, _)
\* the first n events of the log applied to the empty mapping
Replay(log, n) ==
    IF n = 0 THEN [ok |-> TRUE, m |-> Mapping(<<>>)]
    ELSE Apply(Replay(log, n - 1), log[n])

\* the events up to the end of the version group of the k-th snapshot
GroupEnd(k) ==
    Cardinality({n \in 1..Len(audit_log) :
                     audit_log[n].version <= configs[k].version})

\* C10: replaying the log from the empty mapping, every event fits the
\* mapping it is applied to, and after the events of the k-th snapshot's
\* version the mapping is the k-th snapshot's.
C10_LogReplays ==
    Diffed =>
        /\ Replay(audit_log, Len(audit_log)).ok
        /\ \A k \in 1..Len(configs) :
              Replay(audit_log, GroupEnd(k)).m = Mapping(configs[k].properties)

C10_Witness ==
    /\ Diffed
    /\ Len(configs) = 3
    /\ {e.action : e \in Events} = {"ADDED", "CHANGED", "REMOVED"}
    /\ \E k \in 2..Len(configs) : GroupEnd(k) = GroupEnd(k - 1)

----------------------------------------------------------------------------
(* Properties of main *)

Has(forms) == \E i \in 1..Len(argv) : argv[i] \in forms

\* the value after the last of the given forms
Supplied(forms) ==
    argv[1 + CHOOSE i \in 1..Len(argv) :
                 /\ argv[i] \in forms
                 /\ \A j \in (i + 1)..Len(argv) : argv[j] \notin forms]

AllSupplied ==
    /\ Has({Opt_t, Opt_target})
    /\ Has({Opt_c, Opt_cluster})
    /\ Has({Opt_u, Opt_user})
    /\ Has({Opt_cfg, Opt_config})

Unparsable == Has({Opt_z})

\* C7: on a command line that does not ask for help, main exits with code 2
\* exactly when a required flag is missing or a flag is not recognized, and
\* with all four supplied, long or short, it returns the supplied values.
C7_RequiredFlags ==
    (main_result.outcome # "pending" /\ ~Has({Opt_h, Opt_help})) =>
        /\ (main_result.outcome = "exit" /\ main_result.code = 2)
               <=> (~AllSupplied \/ Unparsable)
        /\ (AllSupplied /\ ~Unparsable) =>
              /\ main_result.outcome = "return"
              /\ main_result.target = Supplied({Opt_t, Opt_target})
              /\ main_result.cluster = Supplied({Opt_c, Opt_cluster})
              /\ main_result.user = Supplied({Opt_u, Opt_user})
              /\ main_result.config = Supplied({Opt_cfg, Opt_config})

====
